---- MODULE Spec2Model ----
(***************************************************************************)
(* Model of Compresor_Huffman.py: the HuffmanCompressor object (its        *)
(* frequency_map, huffman_tree and codes), the files compress and          *)
(* decompress read and write, and the public methods as actions.           *)
(*                                                                         *)
(* Python values are represented as follows.                               *)
(*   str                 sequence of symbols (one-character strings)       *)
(*   bit string          sequence of 0 / 1                                 *)
(*   Counter / dict      sequence of <<key, value>> pairs in insertion     *)
(*                       order                                             *)
(*   HuffmanNode         record [char, freq, left, right]                  *)
(*   None (a node)       the record None; char = None is NoChar            *)
(*   serialized tree     sequence of tokens "True", "False" or a symbol    *)
(*   bytearray / bytes   sequence of integers 0..255                       *)
(***************************************************************************)
EXTENDS Integers, Sequences, FiniteSets, TLC

\* The alphabet the input texts are drawn from, and the longest input text.
Symbols == {"a", "b", "c", "d"}
MaxLen == 4

\* How far off a damaged padding count is.
MaxDamage == 1

None == [none |-> TRUE]
NoChar == "None"

Min(a, b) == IF a < b THEN a ELSE b
Max(a, b) == IF a > b THEN a ELSE b

Range(s) == {s[i] : i \in DOMAIN s}

\* Every text of at most MaxLen symbols.
Texts == UNION {[1..n -> Symbols] : n \in 0..MaxLen}

----------------------------------------------------------------------------
(* class HuffmanNode *)

HuffmanNode(char, freq) ==
    [char |-> char, freq |-> freq, left |-> None, right |-> None]

\* __lt__ with the comparison turned around.
lt_reversed(self, other) == self.freq > other.freq

\* HuffmanNode.__lt__: nodes compare by weight alone.
lt(self, other) == self.freq < other.freq

is_leaf(self) == self.char # NoChar

----------------------------------------------------------------------------
(* calculate_frequencies: Counter(text), keys in order of first occurrence *)

RECURSIVE Keys(_)
Keys(chars) ==
    IF chars = <<>> THEN <<>>
    ELSE LET front == Keys(SubSeq(chars, 1, Len(chars) - 1))
             last == chars[Len(chars)]
         IN IF last \in Range(front) THEN front ELSE Append(front, last)

count(chars, c) == Cardinality({i \in DOMAIN chars : chars[i] = c})

RECURSIVE items(_, _)
\* One (key, count) item per key, in the order of the keys.
items(keys, chars) ==
    IF keys = <<>> THEN <<>>
    ELSE <<<<Head(keys), count(chars, Head(keys))>>>> \o items(Tail(keys), chars)

Counter(chars) == items(Keys(chars), chars)

----------------------------------------------------------------------------
(* heapq, as build_huffman_tree uses it.  Positions are 0-based in the     *)
(* library and 1-based here: heap[pos] of the library is heap[pos + 1].    *)

RECURSIVE siftdown(_, _, _, _)
\* _siftdown after newitem = heap[pos]: move newitem up towards startpos.
siftdown(heap, startpos, pos, newitem) ==
    IF pos > startpos
    THEN LET parentpos == (pos - 1) \div 2
             parent == heap[parentpos + 1]
         IN IF lt(newitem, parent)
            THEN siftdown([heap EXCEPT ![pos + 1] = parent], startpos, parentpos, newitem)
            ELSE [heap EXCEPT ![pos + 1] = newitem]
    ELSE [heap EXCEPT ![pos + 1] = newitem]

RECURSIVE siftup_loop(_, _, _, _)
\* The while loop of _siftup: bubble the smaller child up until a leaf.
siftup_loop(heap, startpos, pos, newitem) ==
    LET endpos == Len(heap)
        childpos == 2 * pos + 1
        rightpos == childpos + 1
    IN IF childpos < endpos
       THEN LET c == IF rightpos < endpos /\ ~lt(heap[childpos + 1], heap[rightpos + 1])
                     THEN rightpos ELSE childpos
            IN siftup_loop([heap EXCEPT ![pos + 1] = heap[c + 1]], startpos, c, newitem)
       ELSE siftdown([heap EXCEPT ![pos + 1] = newitem], startpos, pos, newitem)

siftup(heap, pos) == siftup_loop(heap, pos, pos, heap[pos + 1])

RECURSIVE heapify_from(_, _)
\* for i in reversed(range(n // 2)): _siftup(x, i)
heapify_from(x, i) == IF i < 0 THEN x ELSE heapify_from(siftup(x, i), i - 1)

heapify(x) == heapify_from(x, (Len(x) \div 2) - 1)

\* heappop: the popped item and the heap left behind.
heappop(heap) ==
    LET lastelt == heap[Len(heap)]
        rest == SubSeq(heap, 1, Len(heap) - 1)
    IN IF rest # <<>>
       THEN [item |-> heap[1], heap |-> siftup([rest EXCEPT ![1] = lastelt], 0)]
       ELSE [item |-> lastelt, heap |-> rest]

heappush(heap, item) == siftdown(Append(heap, item), 0, Len(heap), item)

----------------------------------------------------------------------------
(* build_huffman_tree, lines 37-51 (after the empty-table check) *)

\* The internal node with the weight of its left child only.
combine_left_weight(left, right) ==
    [char |-> NoChar, freq |-> left.freq, left |-> left, right |-> right]

\* Lines 44-46: the internal node over the two popped nodes.
combine(left, right) ==
    [char |-> NoChar, freq |-> left.freq + right.freq,
     left |-> left, right |-> right]

\* One pass of the while loop: pop two, merge, push.
merge(priority_queue) ==
    LET p1 == heappop(priority_queue)
        p2 == heappop(p1.heap)
    IN heappush(p2.heap, combine(p1.item, p2.item))

RECURSIVE merge_all(_)
merge_all(priority_queue) ==
    IF Len(priority_queue) > 1 THEN merge_all(merge(priority_queue))
    ELSE priority_queue

\* Line 37: one leaf per (char, freq) item, in the table's order.
RECURSIVE leaves(_)
leaves(freqs) ==
    IF freqs = <<>> THEN <<>>
    ELSE <<HuffmanNode(Head(freqs)[1], Head(freqs)[2])>> \o leaves(Tail(freqs))

build_tree(freqs) ==
    LET priority_queue == merge_all(heapify(leaves(freqs)))
    IN IF priority_queue # <<>> THEN priority_queue[1] ELSE None

(* The same loop with heappop taken by its contract alone: it returns a    *)
(* node that no node of the queue is less than.  __lt__ compares weights   *)
(* only, so among nodes of equal weight any may come first; the queue is   *)
(* then a set and every order of resolving the ties is a possible run.     *)

least(queue) == {n \in queue : \A m \in queue : ~lt(m, n)}

RECURSIVE any_tie_roots(_)
\* The roots the loop can end with, over all ways of resolving ties.
any_tie_roots(queue) ==
    IF Cardinality(queue) > 1
    THEN UNION {UNION {any_tie_roots((queue \ {l, r}) \cup {combine(l, r)})
                       : r \in least(queue \ {l})}
                : l \in least(queue)}
    ELSE queue

any_tie_trees(freqs) == any_tie_roots(Range(leaves(freqs)))

----------------------------------------------------------------------------
(* generate_codes *)

has_key(dict, key) == \E i \in DOMAIN dict : dict[i][1] = key

RECURSIVE replace(_, _, _)
replace(dict, key, value) ==
    IF dict = <<>> THEN <<>>
    ELSE <<IF Head(dict)[1] = key THEN <<key, value>> ELSE Head(dict)>>
         \o replace(Tail(dict), key, value)

\* dict[key] = value: replace the entry of key, or append a new one.
store(dict, key, value) ==
    IF has_key(dict, key) THEN replace(dict, key, value)
    ELSE Append(dict, <<key, value>>)

\* dict[key], for a key the dict holds.
lookup(dict, key) == dict[CHOOSE i \in DOMAIN dict : dict[i][1] = key][2]

dict_keys(dict) == {dict[i][1] : i \in DOMAIN dict}

RECURSIVE walk_codes(_, _, _)
\* generate_codes(node, code) on self.codes = table: the table it leaves.
walk_codes(node, code, table) ==
    IF is_leaf(node)
    THEN store(table, node.char, IF code # <<>> THEN code ELSE <<0>>)
    ELSE IF node.left # None /\ node.right # None
    THEN walk_codes(node.right, Append(code, 1),
                    walk_codes(node.left, Append(code, 0), table))
    ELSE IF node.left # None THEN walk_codes(node.left, Append(code, 0), table)
    ELSE IF node.right # None THEN walk_codes(node.right, Append(code, 1), table)
    ELSE table

\* Lines 55-59 and on: the top-level call empties self.codes and walks the
\* tree from the root.
generate(root) == walk_codes(root, <<>>, <<>>)

\* What the top-level call returns: None when the root is a leaf (the bare
\* return of line 63), self.codes otherwise.
codes_returned(root) ==
    IF is_leaf(root) THEN [none |-> TRUE, val |-> <<>>]
    ELSE [none |-> FALSE, val |-> generate(root)]

----------------------------------------------------------------------------
(* serialize_tree / deserialize_tree *)

RECURSIVE serialize_right_first(_)
\* The traversal with the right subtree emitted before the left one.
serialize_right_first(node) ==
    IF is_leaf(node) THEN <<"True", node.char>>
    ELSE <<"False">>
         \o (IF node.right # None THEN serialize_right_first(node.right) ELSE <<>>)
         \o (IF node.left # None THEN serialize_right_first(node.left) ELSE <<>>)

RECURSIVE serialize(_)
serialize(node) ==
    IF is_leaf(node) THEN <<"True", node.char>>
    ELSE <<"False">>
         \o (IF node.left # None THEN serialize(node.left) ELSE <<>>)
         \o (IF node.right # None THEN serialize(node.right) ELSE <<>>)

\* Python truth value of a token: only False is falsy (symbols are
\* non-empty strings).
truthy(token) == token # "False"

RECURSIVE deserialize(_)
\* [err, node, remaining]; err is "" or the exception the call raises.
deserialize(serialized) ==
    IF serialized = <<>> THEN [err |-> "", node |-> None, remaining |-> <<>>]
    ELSE IF truthy(serialized[1])
    THEN IF Len(serialized) < 2
         THEN [err |-> "IndexError", node |-> None, remaining |-> <<>>]
         ELSE [err |-> "", node |-> HuffmanNode(serialized[2], 0),
               remaining |-> SubSeq(serialized, 3, Len(serialized))]
    ELSE LET l == deserialize(SubSeq(serialized, 2, Len(serialized)))
         IN IF l.err # "" THEN l
            ELSE LET r == deserialize(l.remaining)
                 IN IF r.err # "" THEN r
                    ELSE [err |-> "",
                          node |-> [char |-> NoChar, freq |-> 0,
                                    left |-> l.node, right |-> r.node],
                          remaining |-> r.remaining]

----------------------------------------------------------------------------
(* compress, lines 123-132: encode, pad, pack *)

RECURSIVE encode(_, _)
\* for char in text: encoded_text += self.codes[char]
encode(chars, table) ==
    IF chars = <<>> THEN <<>>
    ELSE lookup(table, Head(chars)) \o encode(Tail(chars), table)

\* The padding without the test for an aligned bit string.
padding_for_unaligned(encoded_text) == 8 - (Len(encoded_text) % 8)

\* Line 126
padding_for(encoded_text) ==
    IF Len(encoded_text) % 8 # 0 THEN 8 - (Len(encoded_text) % 8) ELSE 0

RECURSIVE zeros(_)
\* '0' * n
zeros(n) == IF n <= 0 THEN <<>> ELSE <<0>> \o zeros(n - 1)

RECURSIVE int2(_)
\* int(byte, 2)
int2(bits) ==
    IF bits = <<>> THEN 0
    ELSE 2 * int2(SubSeq(bits, 1, Len(bits) - 1)) + bits[Len(bits)]

RECURSIVE pack(_)
\* for i in range(0, len(padded_text), 8): int(padded_text[i:i+8], 2)
pack(padded_text) ==
    IF padded_text = <<>> THEN <<>>
    ELSE <<int2(SubSeq(padded_text, 1, Min(8, Len(padded_text))))>>
         \o pack(SubSeq(padded_text, 9, Len(padded_text)))

----------------------------------------------------------------------------
(* decompress, lines 157-170: unpack, drop the padding, walk the tree *)

RECURSIVE bin(_)
\* bin(byte)[2:]
bin(n) == IF n < 2 THEN <<n>> ELSE Append(bin(n \div 2), n % 2)

zfill(s, width) == IF Len(s) >= width THEN s ELSE zeros(width - Len(s)) \o s

RECURSIVE unpack(_)
unpack(byte_data) ==
    IF byte_data = <<>> THEN <<>>
    ELSE zfill(bin(Head(byte_data)), 8) \o unpack(Tail(byte_data))

\* bits[:-padding] if padding else bits
drop_padding(bits, padding) ==
    IF padding # 0 THEN SubSeq(bits, 1, Max(Len(bits) - padding, 0)) ELSE bits

RECURSIVE decode(_, _, _, _)
\* The decoding loop: [err, text, at], at being current_node when the loop
\* ends.  Reading .left/.right or calling is_leaf() on None raises
\* AttributeError.
decode(root, current_node, bits, decoded_text) ==
    IF bits = <<>>
    THEN [err |-> "", text |-> decoded_text, at |-> current_node]
    ELSE IF current_node = None
    THEN [err |-> "AttributeError", text |-> decoded_text, at |-> None]
    ELSE LET next == IF Head(bits) = 0 THEN current_node.left ELSE current_node.right
         IN IF next = None
            THEN [err |-> "AttributeError", text |-> decoded_text, at |-> None]
            ELSE IF is_leaf(next)
            THEN decode(root, root, Tail(bits), Append(decoded_text, next.char))
            ELSE decode(root, next, Tail(bits), decoded_text)

----------------------------------------------------------------------------
(* State *)

VARIABLES
    text,           \* content of the input file (and of every text argument)
    frequency_map,  \* self.frequency_map
    huffman_tree,   \* self.huffman_tree
    codes,          \* self.codes
    hufftree_file,  \* the <prefix>.hufftree file: pickled (serialized_tree, padding)
    huff_file,      \* the <prefix>.huff file: the packed bytes
    output_file,    \* the file decompress writes the decoded text to
    result          \* the last call: its name, how it ended, what it returned

vars == <<text, frequency_map, huffman_tree, codes,
          hufftree_file, huff_file, output_file, result>>

NoTreeFile == [exists |-> FALSE, serialized_tree |-> <<>>, padding |-> 0]
NoFile == [exists |-> FALSE, data |-> <<>>]

Init ==
    /\ text \in Texts
    /\ frequency_map = <<>>
    /\ huffman_tree = None
    /\ codes = <<>>
    /\ hufftree_file = NoTreeFile
    /\ huff_file = NoFile
    /\ output_file = NoFile
    /\ result = [op |-> "__init__", status |-> "ok"]

----------------------------------------------------------------------------
(* The methods called one by one *)

CalculateFrequencies ==
    /\ frequency_map' = Counter(text)
    /\ result' = [op |-> "calculate_frequencies", status |-> "ok"]
    /\ UNCHANGED <<text, huffman_tree, codes, hufftree_file, huff_file, output_file>>

BuildHuffmanTree ==
    /\ IF frequency_map = <<>>
       THEN /\ result' = [op |-> "build_huffman_tree", status |-> "ValueError"]
            /\ UNCHANGED huffman_tree
       ELSE /\ huffman_tree' = build_tree(frequency_map)
            /\ result' = [op |-> "build_huffman_tree", status |-> "ok"]
    /\ UNCHANGED <<text, frequency_map, codes, hufftree_file, huff_file, output_file>>

GenerateCodes ==
    /\ IF huffman_tree = None
       THEN /\ result' = [op |-> "generate_codes", status |-> "ValueError"]
            /\ UNCHANGED codes
       ELSE /\ codes' = generate(huffman_tree)
            /\ result' = [op |-> "generate_codes", status |-> "ok",
                          ret |-> codes_returned(huffman_tree)]
    /\ UNCHANGED <<text, frequency_map, huffman_tree, hufftree_file, huff_file, output_file>>

SerializeTree ==
    /\ IF huffman_tree = None
       THEN result' = [op |-> "serialize_tree", status |-> "ValueError"]
       ELSE result' = [op |-> "serialize_tree", status |-> "ok",
                       ret |-> serialize(huffman_tree)]
    /\ UNCHANGED <<text, frequency_map, huffman_tree, codes,
                   hufftree_file, huff_file, output_file>>

Prefixes(s) == {SubSeq(s, 1, n) : n \in 0..Len(s)}

\* The token sequences deserialize_tree is called on: the serialization of
\* the current tree, whole or cut short.
TokenInputs ==
    IF huffman_tree = None THEN {<<>>} ELSE Prefixes(serialize(huffman_tree))

DeserializeTree ==
    /\ \E serialized \in TokenInputs :
          LET d == deserialize(serialized)
          IN result' = [op |-> "deserialize_tree",
                        status |-> IF d.err = "" THEN "ok" ELSE d.err,
                        serialized |-> serialized,
                        node |-> d.node, remaining |-> d.remaining]
    /\ UNCHANGED <<text, frequency_map, huffman_tree, codes,
                   hufftree_file, huff_file, output_file>>

----------------------------------------------------------------------------
(* compress *)

\* Where the call's file operations can fail.
CompressFailures == {"none", "read", "write_hufftree", "write_huff"}

Compress ==
    /\ \E fail \in CompressFailures :
          LET freqs == Counter(text)
              tree == build_tree(freqs)
              table == generate(tree)
              encoded_text == encode(text, table)
              padding == padding_for(encoded_text)
              padded_text == encoded_text \o zeros(padding)
              bytes_array == pack(padded_text)
          IN IF fail = "read"
             THEN \* lines 113-117: nothing has been touched yet
                  /\ result' = [op |-> "compress", status |-> "IOError", wrote |-> {}]
                  /\ UNCHANGED <<frequency_map, huffman_tree, codes,
                                 hufftree_file, huff_file>>
             ELSE IF freqs = <<>>
             THEN \* line 120: build_huffman_tree raises on the empty table
                  /\ frequency_map' = freqs
                  /\ result' = [op |-> "compress", status |-> "ValueError", wrote |-> {}]
                  /\ UNCHANGED <<huffman_tree, codes, hufftree_file, huff_file>>
             ELSE /\ frequency_map' = freqs
                  /\ huffman_tree' = tree
                  /\ codes' = table
                  /\ hufftree_file' =
                        IF fail = "write_hufftree" THEN hufftree_file
                        ELSE [exists |-> TRUE, serialized_tree |-> serialize(tree),
                              padding |-> padding]
                  /\ huff_file' =
                        IF fail = "none" THEN [exists |-> TRUE, data |-> bytes_array]
                        ELSE huff_file
                  /\ result' =
                        IF fail = "none"
                        THEN [op |-> "compress", status |-> "ok",
                              wrote |-> {"hufftree", "huff"},
                              ret |-> <<Len(text), Len(bytes_array)>>]
                        ELSE [op |-> "compress", status |-> "IOError",
                              wrote |-> IF fail = "write_huff" THEN {"hufftree"}
                                        ELSE {}]
    /\ UNCHANGED <<text, output_file>>

----------------------------------------------------------------------------
(* decompress *)

\* The metadata files decompress is pointed at: the one compress wrote, or
\* a copy of it whose padding count is off by at most MaxDamage.
HufftreeInputs ==
    {hufftree_file}
    \cup (IF hufftree_file.exists
          THEN {[hufftree_file EXCEPT !.padding = p]
                : p \in Max(0, hufftree_file.padding - MaxDamage)
                        .. Min(7, hufftree_file.padding + MaxDamage)}
          ELSE {})

\* Where the call's file operations can fail.
DecompressFailures == {"none", "read_hufftree", "read_huff", "write"}

Decompress ==
    /\ \E meta \in HufftreeInputs, fail \in DecompressFailures, with_output \in BOOLEAN :
          LET d == deserialize(meta.serialized_tree)
              bits == drop_padding(unpack(huff_file.data), meta.padding)
              walk == decode(d.node, d.node, bits, <<>>)
              raised(e) == [op |-> "decompress", status |-> e,
                            hufftree |-> meta, huff |-> huff_file]
          IN IF ~meta.exists \/ fail = "read_hufftree" \/ d.err # ""
             THEN \* lines 146-150 raise inside the try: IOError, tree not assigned
                  /\ result' = raised("IOError")
                  /\ UNCHANGED <<huffman_tree, output_file>>
             ELSE IF ~huff_file.exists \/ fail = "read_huff"
             THEN \* lines 152-153 raise after line 150 assigned the tree
                  /\ huffman_tree' = d.node
                  /\ result' = raised("IOError")
                  /\ UNCHANGED output_file
             ELSE IF walk.err # ""
             THEN /\ huffman_tree' = d.node
                  /\ result' = raised(walk.err)
                  /\ UNCHANGED output_file
             ELSE IF with_output /\ fail = "write"
             THEN /\ huffman_tree' = d.node
                  /\ result' = raised("IOError")
                  /\ UNCHANGED output_file
             ELSE /\ huffman_tree' = d.node
                  /\ output_file' = IF with_output
                                    THEN [exists |-> TRUE, data |-> walk.text]
                                    ELSE output_file
                  /\ result' = [op |-> "decompress", status |-> "ok",
                                hufftree |-> meta, huff |-> huff_file,
                                ret |-> walk.text, at |-> walk.at]
    /\ UNCHANGED <<text, frequency_map, codes, hufftree_file, huff_file>>

----------------------------------------------------------------------------
(* The same build with any order of resolving ties *)

BuildHuffmanTreeAnyTie ==
    /\ IF frequency_map = <<>>
       THEN /\ result' = [op |-> "build_huffman_tree", status |-> "ValueError"]
            /\ UNCHANGED huffman_tree
       ELSE /\ huffman_tree' \in any_tie_trees(frequency_map)
            /\ result' = [op |-> "build_huffman_tree", status |-> "ok"]
    /\ UNCHANGED <<text, frequency_map, codes, hufftree_file, huff_file, output_file>>

----------------------------------------------------------------------------
(* Specifications *)

\* The program as main() drives it: compress and decompress on files.
Next ==
    \/ Compress
    \/ Decompress

Spec == Init /\ [][Next]_vars

\* The methods called one by one on a compressor, as the unit tests do.
NextMethods ==
    \/ CalculateFrequencies
    \/ BuildHuffmanTree
    \/ GenerateCodes
    \/ SerializeTree
    \/ DeserializeTree

SpecMethods == Init /\ [][NextMethods]_vars

\* Frequencies, build and code generation, the heap resolving ties in any
\* order.
NextTies ==
    \/ CalculateFrequencies
    \/ BuildHuffmanTreeAnyTie
    \/ GenerateCodes

SpecTies == Init /\ [][NextTies]_vars

----------------------------------------------------------------------------
(* Properties *)

IsPrefix(p, q) == Len(p) <= Len(q) /\ SubSeq(q, 1, Len(p)) = p

PrefixFree(table) ==
    \A i, j \in DOMAIN table : i # j => ~IsPrefix(table[i][2], table[j][2])

\* A table with exactly one non-empty code per key of freqs.
OneCodePerSymbol(table, freqs) ==
    /\ Len(table) = Len(freqs)
    /\ dict_keys(table) = dict_keys(freqs)
    /\ \A i \in DOMAIN table : table[i][2] # <<>>

RECURSIVE total(_)
\* sum(frequency_map.values())
total(freqs) == IF freqs = <<>> THEN 0 ELSE Head(freqs)[2] + total(Tail(freqs))

RECURSIVE weights_add_up(_)
\* Every internal node has two children and weighs what they weigh together.
weights_add_up(node) ==
    \/ is_leaf(node)
    \/ /\ node.left # None
       /\ node.right # None
       /\ node.freq = node.left.freq + node.right.freq
       /\ weights_add_up(node.left)
       /\ weights_add_up(node.right)

RECURSIVE missing_child(_)
\* Some internal node of the tree lacks its left or its right child.
missing_child(node) ==
    /\ ~is_leaf(node)
    /\ \/ node.left = None
       \/ node.right = None
       \/ missing_child(node.left)
       \/ missing_child(node.right)

\* The last call was decompress on the metadata and payload files as compress
\* wrote them, and no file operation of it failed.
DecompressedIntact ==
    /\ result.op = "decompress"
    /\ result.hufftree = hufftree_file
    /\ result.huff = huff_file
    /\ result.status # "IOError"

\* The bits decompress decoded in the last call.
DecodedBits == drop_padding(unpack(result.huff.data), result.hufftree.padding)

\* C1 (Spec): compress succeeds on every text, the empty one included,
\* unless a file operation fails, and decompress on the two artifacts it
\* wrote returns exactly the text.
C1_RoundTrip ==
    /\ result.op = "compress" => result.status \in {"ok", "IOError"}
    /\ DecompressedIntact => result.status = "ok" /\ result.ret = text

\* C2 (SpecMethods): on the tree built from a non-empty frequency table,
\* generate_codes returns a table with one non-empty code per distinct
\* symbol in which no code is a prefix of another.
C2_PrefixFreedom ==
    (result.op = "generate_codes" /\ result.status = "ok" /\ frequency_map # <<>>)
    => /\ ~result.ret.none
       /\ OneCodePerSymbol(result.ret.val, frequency_map)
       /\ PrefixFree(result.ret.val)

\* The table generate_codes leaves in self.codes has the property of C2 in
\* every case, the single-leaf tree included (SpecMethods).
StoredCodesPrefixFree ==
    (result.op = "generate_codes" /\ result.status = "ok" /\ frequency_map # <<>>)
    => OneCodePerSymbol(codes, frequency_map) /\ PrefixFree(codes)

\* C3 (SpecTies): whatever order ties are resolved in, a symbol of strictly
\* higher frequency never has a strictly longer code than one of lower
\* frequency.
C3_MonotonicCodeLength ==
    codes # <<>>
    => \A i, j \in DOMAIN frequency_map :
          frequency_map[i][2] > frequency_map[j][2]
          => Len(lookup(codes, frequency_map[i][1]))
                <= Len(lookup(codes, frequency_map[j][1]))

\* Codes were generated for a table in which a more frequent symbol got a
\* strictly shorter code than a less frequent one.
C3_Witness ==
    /\ result.op = "generate_codes"
    /\ codes # <<>>
    /\ \E i, j \in DOMAIN frequency_map :
          /\ frequency_map[i][2] > frequency_map[j][2]
          /\ Len(lookup(codes, frequency_map[i][1]))
                < Len(lookup(codes, frequency_map[j][1]))

\* C4 (SpecMethods): the root build_huffman_tree returns weighs the sum of
\* all frequency counts, and every internal node weighs the sum of its two
\* children.
C4_WeightInvariant ==
    (result.op = "build_huffman_tree" /\ result.status = "ok")
    => /\ huffman_tree.freq = total(frequency_map)
       /\ weights_add_up(huffman_tree)

\* A tree was built by at least two merges.
C4_Witness ==
    /\ result.op = "build_huffman_tree"
    /\ result.status = "ok"
    /\ Len(frequency_map) >= 3
    /\ huffman_tree.freq = Len(text)

\* C5 (Spec): the padding compress records is in 0..7, is 0 exactly when
\* the encoded bit string is a multiple of 8 bits long, and the padded bit
\* string is 8 bits per payload byte written.
C5_PaddingBound ==
    (result.op = "compress" /\ result.status = "ok")
    => LET n == Len(encode(text, codes))
       IN /\ hufftree_file.padding \in 0..7
          /\ hufftree_file.padding = 0 <=> n % 8 = 0
          /\ n + hufftree_file.padding = 8 * Len(huff_file.data)

\* compress wrote a non-empty payload that needed no padding.
C5_Witness ==
    /\ result.op = "compress"
    /\ result.status = "ok"
    /\ hufftree_file.padding = 0
    /\ Len(huff_file.data) >= 1

\* C6 (SpecMethods): deserialize_tree on the serialization of a built tree
\* consumes every token and returns a tree generate_codes maps to the same
\* codes, stored and returned, as the original.
C6_SerializationFidelity ==
    (/\ result.op = "deserialize_tree"
     /\ huffman_tree # None
     /\ result.serialized = serialize(huffman_tree))
    => /\ result.status = "ok"
       /\ result.remaining = <<>>
       /\ result.node # None
       /\ generate(result.node) = generate(huffman_tree)
       /\ codes_returned(result.node) = codes_returned(huffman_tree)

\* The whole serialization of a tree of at least three leaves was
\* deserialized.
C6_Witness ==
    /\ result.op = "deserialize_tree"
    /\ huffman_tree # None
    /\ result.serialized = serialize(huffman_tree)
    /\ Len(frequency_map) >= 3
    /\ result.status = "ok"

\* C7 (Spec): decompress never returns a text when the bits end with the
\* walk in the middle of the tree: a returned text means the walk ended at
\* the root.
C7_MidTreeRaises ==
    (result.op = "decompress" /\ result.status = "ok")
    => result.at = huffman_tree

\* C8 (SpecMethods): deserialize_tree raises on an internal-node marker
\* followed by fewer than two complete subtrees, and never returns a tree
\* in which a child is missing.
C8_TruncatedRaises ==
    result.op = "deserialize_tree"
    => /\ (/\ huffman_tree # None
           /\ result.serialized # <<>>
           /\ result.serialized # serialize(huffman_tree)
           /\ result.serialized[1] = "False")
          => result.status # "ok"
       /\ (result.status = "ok" /\ result.node # None)
          => ~missing_child(result.node)

\* C9 (Spec): with one distinct symbol in the text, the symbol's code is
\* "0", and decoding emits the symbol once per bit left after the padding
\* is dropped, so the artifacts as written decode to the text.
C9_SingleSymbol ==
    Len(frequency_map) = 1
    => /\ (result.op = "compress" /\ result.status = "ok")
          => codes = <<<<frequency_map[1][1], <<0>>>>>>
       /\ (/\ result.op = "decompress"
           /\ result.hufftree.exists
           /\ result.huff.exists
           /\ result.status # "IOError")
          => /\ result.status = "ok"
             /\ Len(result.ret) = Len(DecodedBits)
             /\ \A i \in DOMAIN result.ret : result.ret[i] = frequency_map[1][1]
       /\ DecompressedIntact => result.status = "ok" /\ result.ret = text

\* C10 (Spec): a compress call that fails has written both artifacts or
\* neither.
C10_ArtifactAtomicity ==
    (result.op = "compress" /\ result.status # "ok")
    => Cardinality(result.wrote) # 1

====
